---- MODULE Spec2Model ----
(***************************************************************************)
(* Content standardization pipeline of the coaching platform backend:      *)
(* the AIProcessing record store, the request handlers that schedule a     *)
(* pipeline run (trigger_ai_processing, submit_response), the background   *)
(* run itself (process_response_content with its extractors, standardizer  *)
(* and error handler) and the manual retry (retry_failed_processing).      *)
(*                                                                         *)
(* A text is modelled by its length, a timestamp by whether it is set, a   *)
(* media type "a/b" by the pair <<"a", "b">> and a filename by its         *)
(* dot-separated parts.  The audit store, the OCR / speech / document      *)
(* tools and the text-generation service are external: each call either    *)
(* returns or raises.                                                      *)
(***************************************************************************)
EXTENDS Integers, Sequences, FiniteSets, TLC

\* ------------------------------------------------------------------ bounds
MaxTasks == 2
\* longest text the confidence score is applied to on its own
MaxLen == 4
\* most auto-saves of one response
MaxAutoSaves == 2

\* ------------------------------------------------------------- constants
DefaultMaxRetries == 3
BaseConfidence == 8
RatioPenalty == 2
TokenPenalty == 1
TokenThreshold == 1500

None == "None"
\* None where the value would be a media type or a filename ("" is <<"">>)
Absent == << >>
NoScore == -1
NoText == -1
NoId == -1

PENDING == "PENDING"
PROCESSING == "PROCESSING"
COMPLETED == "COMPLETED"
FAILED == "FAILED"
RETRYING == "RETRYING"

AIProcessingStatus == {PENDING, PROCESSING, COMPLETED, FAILED, RETRYING}

AIInputType == {"TEXT", "IMAGE", "AUDIO", "DOCUMENT"}

\* ------------------------------------------------------------------ state
VARIABLES
    responses,   \* participant_responses rows: id -> row
    records,     \* ai_processing rows: id -> row
    next_id,     \* next primary key of ai_processing
    tasks,       \* background tasks, in the order they were scheduled
    cleanup,     \* the session of the scheduled cleanup job
    calls        \* a helper applied on its own: arguments and result

vars == <<responses, records, next_id, tasks, cleanup, calls>>

\* ------------------------------------------------------- modality classifier
DocumentMimeTypes ==
    { <<"application", "pdf">>,
      <<"application", "vnd.openxmlformats-officedocument.wordprocessingml.document">>,
      <<"application", "msword">> }

WordMimeTypes ==
    { <<"application", "vnd.openxmlformats-officedocument.wordprocessingml.document">>,
      <<"application", "msword">> }

\* content_type.startswith(prefix + "/")
StartsWith(content_type, prefix) ==
    Len(content_type) >= 2 /\ content_type[1] = prefix

\* str.lower() on the extensions that occur in the inputs
Lower(s) ==
    CASE s = "MP3" -> "mp3"
      [] s = "PNG" -> "png"
      [] s = "PDF" -> "pdf"
      [] s = "DOCX" -> "docx"
      [] s = "TXT" -> "txt"
      [] s = "JPG" -> "jpg"
      [] OTHER -> s

\* filename.lower().split('.')[-1]
Extension(filename) == Lower(filename[Len(filename)])

\* "raises" stands for the AttributeError of None.startswith
_determine_input_type(content_type, filename) ==
    IF content_type = Absent THEN "raises"
    ELSE IF StartsWith(content_type, "image") THEN "IMAGE"
    ELSE IF StartsWith(content_type, "audio") THEN "AUDIO"
    ELSE IF content_type \in DocumentMimeTypes THEN "DOCUMENT"
    ELSE IF StartsWith(content_type, "text") THEN "TEXT"
    ELSE IF filename # Absent /\ filename # <<"">>
         THEN LET ext == Extension(filename) IN
              IF ext \in {"jpg", "jpeg", "png", "gif", "bmp", "tiff"} THEN "IMAGE"
              ELSE IF ext \in {"mp3", "wav", "ogg", "flac", "m4a"} THEN "AUDIO"
              ELSE IF ext \in {"pdf", "docx", "doc"} THEN "DOCUMENT"
              ELSE "TEXT"
    ELSE "TEXT"

\* ------------------------------------------------------- confidence scoring
Max(a, b) == IF a >= b THEN a ELSE b
Min(a, b) == IF a <= b THEN a ELSE b

\* a score that adds its adjustments and is not clamped
_confidence_unclamped(original_len, standardized_len, tokens_used) ==
    LET denom == Max(original_len, 1)
        c1 == IF 2 * standardized_len < denom \/ standardized_len > 2 * denom
              THEN BaseConfidence + RatioPenalty ELSE BaseConfidence
    IN  IF tokens_used > TokenThreshold THEN c1 + TokenPenalty ELSE c1

\* in tenths; length_ratio < 0.5 and > 2.0 compared without division
_calculate_confidence_score(original_len, standardized_len, tokens_used) ==
    LET denom == Max(original_len, 1)
        c1 == IF 2 * standardized_len < denom \/ standardized_len > 2 * denom
              THEN BaseConfidence - RatioPenalty ELSE BaseConfidence
        c2 == IF tokens_used > TokenThreshold THEN c1 - TokenPenalty ELSE c1
    IN  Max(0, Min(10, c2))

\* ------------------------------------------------------------------ inputs
\* uploads a caller may attach to trigger_ai_processing
Uploads ==
    { [content_type |-> <<"text", "plain">>, filename |-> <<"notes", "txt">>, data |-> "corrupt"] }

NoFile == [content_type |-> Absent, filename |-> Absent, data |-> None]

\* length of the text a working extractor returns, and of resp.text_content
ExtractedLen == 4

\* what the text-generation service may answer
StdReplies == { [len |-> 4, tokens |-> 900] }

AuditOutcomes == {"ok", "raises"}

\* ------------------------------------------------------------------- Init
\* the cleanup job between two firings of its cron trigger: nothing loaded
IdleSession == [pc |-> "idle", old_failed |-> {}, old_completed |-> {}]

\* no helper is being applied on its own
NoCall == [fn |-> None]

NewResponse(has_text) ==
    [ status |-> "DRAFT",
      text_content |-> has_text,
      content |-> has_text,
      draft_content |-> None,
      is_auto_saved |-> FALSE,
      auto_save_count |-> 0 ]

\* one response, typed in (text_content set) or uploaded as a file only
Init ==
    /\ responses \in { (1 :> NewResponse(TRUE)), (1 :> NewResponse(FALSE)) }
    /\ records = << >>
    /\ next_id = 1
    /\ tasks = << >>
    /\ cleanup = IdleSession
    /\ calls = NoCall

\* ------------------------------------------------------- request handlers
\* an existence check that forgets COMPLETED
ExistingStatusesWithoutCompleted == {PENDING, PROCESSING}

\* the statuses the existence check of both handlers filters on
ExistingStatuses == {PENDING, PROCESSING, COMPLETED}

\* rows the existence query matches; .first() returns any one of them
Existing(r) ==
    { i \in DOMAIN records :
        /\ records[i].response_id = r
        /\ records[i].processing_status \in ExistingStatuses }

\* existing.processing_status.value.lower()
StatusLower(s) ==
    CASE s = PENDING -> "pending"
      [] s = PROCESSING -> "processing"
      [] s = COMPLETED -> "completed"
      [] s = FAILED -> "failed"
      [] s = RETRYING -> "retrying"

\* what the handler answers when it has scheduled a run (lines 279-284)
Initiated == [processing_id |-> 0, status |-> "initiated"]

\* what the handler answers from an existing row (lines 240-244)
AlreadyExists(i) ==
    [processing_id |-> i, status |-> StatusLower(records[i].processing_status)]

\* what submit_response answers (lines 363-369): no processing_id at all
Submitted == [processing_id |-> NoId, status |-> "SUBMITTED"]

\* process_content_background and start_ai_processing_on_submit both await
\* process_response_content and then only log, so a task is the run itself;
\* replied is what the request that scheduled it answered
NewTask(r, content_type, filename, data, replied) ==
    [ response_id |-> r,
      content_type |-> content_type,
      filename |-> filename,
      data |-> data,
      replied |-> replied,
      pc |-> "scheduled",
      rec |-> 0,
      extracted |-> NoText,
      raised |-> None,
      handled |-> None,
      result |-> None ]

\* the replies trigger_ai_processing can give in the current state
TriggerReplies(r, force, file, audit) ==
    IF Existing(r) # {} /\ ~force THEN { AlreadyExists(i) : i \in Existing(r) }
    ELSE IF file = NoFile /\ ~responses[r].text_content
         THEN { [processing_id |-> 0, status |-> "no_content"] }
    ELSE IF audit = "raises" THEN { [processing_id |-> 0, status |-> "error"] }
    ELSE { Initiated }

\* POST /responses/{response_id}/process-ai.  The tasks added to
\* BackgroundTasks run only once the handler has returned its response, so
\* a handler that ends in an exception schedules nothing.
trigger_ai_processing(r, force, file, audit) ==
    LET schedule(content_type, filename, data) ==
            IF audit = "ok"
            THEN /\ Len(tasks) < MaxTasks
                 /\ tasks' = Append(tasks,
                        NewTask(r, content_type, filename, data, Initiated))
            ELSE tasks' = tasks
    IN
    /\ IF Existing(r) # {} /\ ~force
       THEN tasks' = tasks
       ELSE IF file # NoFile
       THEN schedule(file.content_type, file.filename, file.data)
       ELSE IF responses[r].text_content
       THEN schedule(<<"text", "plain">>, Absent, "valid")
       ELSE tasks' = tasks
    /\ UNCHANGED <<responses, records, next_id, cleanup, calls>>

\* response.draft_content.get("content", response.content)
DraftGet(draft_content, content) ==
    CASE draft_content = "with_content" -> TRUE
      [] draft_content = "empty_content" -> FALSE
      [] OTHER -> content

\* POST /responses/{response_id}/submit
submit_response(r, trigger, audit) ==
    LET old == responses[r]
        merge == old.draft_content # None /\ old.is_auto_saved
        new == [ old EXCEPT
                   !.status = "SUBMITTED",
                   !.content = IF merge THEN DraftGet(old.draft_content, old.content)
                               ELSE old.content,
                   !.draft_content = IF merge THEN None ELSE old.draft_content,
                   !.is_auto_saved = IF merge THEN FALSE ELSE old.is_auto_saved ]
    IN
    /\ responses' = [responses EXCEPT ![r] = new]
    /\ IF audit = "ok" /\ trigger /\ new.content /\ Existing(r) = {}
       THEN /\ Len(tasks) < MaxTasks
            /\ tasks' = Append(tasks,
                  NewTask(r, <<"text", "plain">>, Absent, "valid", Submitted))
       ELSE tasks' = tasks
    /\ UNCHANGED <<records, next_id, cleanup, calls>>

\* ------------------------------------------------------ the background run
\* created_at holds the age of the row in days (now() - created_at)
NewRecord(r, input_type) ==
    [ response_id |-> r,
      processing_status |-> PENDING,
      input_type |-> input_type,
      original_content |-> "metadata",
      processed_content |-> NoText,
      standardized_text |-> NoText,
      confidence_score |-> NoScore,
      processing_steps |-> << >>,
      error_message |-> None,
      retry_count |-> 0,
      max_retries |-> DefaultMaxRetries,
      started_at |-> "set",
      completed_at |-> None,
      created_at |-> 0 ]

AddStep(rec, step) ==
    [rec EXCEPT !.processing_steps = Append(@, step)]

\* an error handler that forgets to count the failure
HandleErrorUncounted(rec, error_message) ==
    [ AddStep(rec, "error_occurred") EXCEPT
        !.error_message = error_message,
        !.processing_status = RETRYING ]

\* _handle_processing_error up to its commit
HandleError(rec, error_message) ==
    LET counted == [ AddStep(rec, "error_occurred") EXCEPT
                       !.retry_count = @ + 1,
                       !.error_message = error_message ]
    IN  IF counted.retry_count < counted.max_retries
        THEN [counted EXCEPT !.processing_status = RETRYING]
        ELSE [counted EXCEPT !.processing_status = FAILED,
                             !.completed_at = "set"]

\* the exception an extractor or the standardizer raised reaches the except
\* clause of process_response_content, which runs the error handler
Fail(t, rec, cause, error_message) ==
    /\ records' = [records EXCEPT ![tasks[t].rec] = HandleError(rec, error_message)]
    /\ tasks' = [tasks EXCEPT
          ![t].pc = "audit_error",
          ![t].raised = IF @ = None THEN cause ELSE @,
          ![t].handled = StatusLower(HandleError(rec, error_message).processing_status)]

\* process_response_content is over: it returned a result dict with this
\* status, or ("exception") an exception left it for the task wrapper to log
Done(task, result) ==
    [ task EXCEPT !.pc = "done", !.result = result,
                  !.extracted = NoText, !.raised = None, !.handled = None ]

\* lines 72-83: classify, insert the row, commit
CreateRecord(t) ==
    LET task == tasks[t]
        input_type == _determine_input_type(task.content_type, task.filename)
    IN
    /\ task.pc = "scheduled"
    /\ IF input_type = "raises"
       THEN /\ tasks' = [tasks EXCEPT ![t] = Done(task, "exception")]
            /\ UNCHANGED <<records, next_id>>
       ELSE /\ records' = records @@ (next_id :> NewRecord(task.response_id, input_type))
            /\ next_id' = next_id + 1
            /\ tasks' = [tasks EXCEPT ![t].pc = "created", ![t].rec = next_id]
    /\ UNCHANGED <<responses, cleanup, calls>>

\* a start that updates the rows by response_id instead of the row it inserted
StartProcessingByResponse(t) ==
    /\ tasks[t].pc = "created"
    /\ records' = [i \in DOMAIN records |->
          IF records[i].response_id = tasks[t].response_id
          THEN [AddStep(records[i], "started_processing") EXCEPT
                  !.processing_status = PROCESSING]
          ELSE records[i]]
    /\ tasks' = [tasks EXCEPT ![t].pc = "processing"]
    /\ UNCHANGED <<responses, next_id, cleanup, calls>>

\* lines 86-93
StartProcessing(t) ==
    /\ tasks[t].pc = "created"
    /\ records' = [records EXCEPT ![tasks[t].rec] =
                      [AddStep(@, "started_processing") EXCEPT !.processing_status = PROCESSING]]
    /\ tasks' = [tasks EXCEPT ![t].pc = "processing"]
    /\ UNCHANGED <<responses, next_id, cleanup, calls>>

ExtractorSteps(input_type) ==
    CASE input_type = "IMAGE" ->
            [started |-> "ocr_processing_started", completed |-> "ocr_completed",
             error |-> "ocr_error", message |-> "OCR processing failed"]
      [] input_type = "AUDIO" ->
            [started |-> "speech_to_text_started", completed |-> "speech_to_text_completed",
             error |-> "speech_to_text_error", message |-> "Speech-to-text processing failed"]
      [] input_type = "DOCUMENT" ->
            [started |-> "document_parsing_started", completed |-> "document_parsing_completed",
             error |-> "document_parsing_error", message |-> "Document parsing failed"]

\* a Document whose declared type is neither PDF nor Word takes neither
\* branch of _process_document and keeps extracted_text = ""
UnparsedDocument(task, rec) ==
    /\ rec.input_type = "DOCUMENT"
    /\ task.content_type \notin DocumentMimeTypes

\* Text: bytes.decode raises on bytes that are not UTF-8.  The other
\* modalities call a tool, which returns or raises and always raises on a
\* corrupt file.
ExtractionOutcomes(task, rec) ==
    IF rec.input_type = "TEXT"
    THEN IF task.data = "valid" THEN {"ok"} ELSE {"raises"}
    ELSE IF UnparsedDocument(task, rec) THEN {"ok"}
    ELSE IF task.data = "valid" THEN {"ok", "raises"}
    ELSE {"raises"}

\* the entries an extractor appends around its tool call (Text appends none)
Extracted(rec, outcome) ==
    IF rec.input_type = "TEXT" THEN rec
    ELSE LET names == ExtractorSteps(rec.input_type)
         IN  AddStep(AddStep(rec, names.started),
                     IF outcome = "ok" THEN names.completed ELSE names.error)

ExtractionError(rec) ==
    IF rec.input_type = "TEXT" THEN "utf-8 codec can't decode"
    ELSE ExtractorSteps(rec.input_type).message

\* lines 96-105 with the extractor called, then the start of
\* _standardize_text_openai up to its call of the text-generation service
Extract(t, outcome) ==
    LET task == tasks[t]
        rec == records[task.rec]
    IN
    /\ task.pc = "processing"
    /\ outcome \in ExtractionOutcomes(task, rec)
    /\ IF outcome = "ok"
       THEN /\ records' = [records EXCEPT ![task.rec] =
                  AddStep(Extracted(rec, outcome), "openai_standardization_started")]
            /\ tasks' = [tasks EXCEPT
                  ![t].pc = "standardizing",
                  ![t].extracted = IF UnparsedDocument(task, rec) THEN 0 ELSE ExtractedLen]
       ELSE Fail(t, Extracted(rec, outcome), "extractor", ExtractionError(rec))
    /\ UNCHANGED <<responses, next_id, cleanup, calls>>

\* lines 112-124
Complete(rec, extracted, standardized, confidence) ==
    [ AddStep(rec, "completed_successfully") EXCEPT
        !.processed_content = extracted,
        !.standardized_text = standardized,
        !.confidence_score = confidence,
        !.processing_status = COMPLETED,
        !.completed_at = "set" ]

\* the answer of the text-generation call: the rest of
\* _standardize_text_openai and, when it returns, lines 112-124
FinishStandardization(t, outcome, reply) ==
    LET task == tasks[t]
        rec == records[task.rec]
        confidence == _calculate_confidence_score(task.extracted, reply.len, reply.tokens)
    IN
    /\ task.pc = "standardizing"
    /\ IF outcome = "ok"
       THEN /\ records' = [records EXCEPT ![task.rec] =
                  Complete(AddStep(rec, "openai_standardization_completed"),
                           task.extracted, reply.len, confidence)]
            /\ tasks' = [tasks EXCEPT ![t].pc = "audit_completed"]
       ELSE Fail(t, AddStep(rec, "openai_standardization_error"),
                 "standardizer", "OpenAI standardization failed")
    /\ UNCHANGED <<responses, next_id, cleanup, calls>>

\* lines 126-145: the completed event is emitted inside the try block
AuditCompleted(t, audit) ==
    LET task == tasks[t]
    IN
    /\ task.pc = "audit_completed"
    /\ IF audit = "ok"
       THEN /\ tasks' = [tasks EXCEPT ![t] = Done(task, "completed")]
            /\ records' = records
       ELSE Fail(t, records[task.rec], "audit", "audit emission failed")
    /\ UNCHANGED <<responses, next_id, cleanup, calls>>

\* lines 417-431 and 437-451: the event is emitted outside any try block
AuditError(t, audit) ==
    LET task == tasks[t]
    IN
    /\ task.pc = "audit_error"
    /\ tasks' = [tasks EXCEPT ![t] =
                    Done(task, IF audit = "ok" THEN task.handled ELSE "exception")]
    /\ UNCHANGED <<responses, records, next_id, cleanup, calls>>

\* ------------------------------------------------------------ manual retry
\* hasattr(response, 'file_data'): ParticipantResponse declares no such column
HasFileData == FALSE

\* a reset that leaves the start timestamp of the failed attempt in place
ResetKeepingStartedAt(rec) ==
    [ AddStep(rec, "manual_retry_initiated") EXCEPT
        !.retry_count = 0,
        !.processing_status = PENDING,
        !.error_message = None,
        !.completed_at = None ]

\* lines 490-499
ResetForRetry(rec) ==
    [ AddStep(rec, "manual_retry_initiated") EXCEPT
        !.retry_count = 0,
        !.processing_status = PENDING,
        !.error_message = None,
        !.started_at = None,
        !.completed_at = None ]

\* how the call ends: the ValueError raised, or the returned status
RetryOutcome(processing_id) ==
    IF processing_id \notin DOMAIN records THEN "Processing record not found"
    ELSE IF records[processing_id].processing_status \notin {FAILED, RETRYING}
         THEN "Can only retry failed or retrying processing jobs"
    ELSE IF records[processing_id].response_id \notin DOMAIN responses \/ ~HasFileData
         THEN "Original response data not found"
    ELSE "retry_initiated"

\* a retry that skips the status check of lines 487-488
retry_any_status(processing_id) ==
    /\ IF processing_id \notin DOMAIN records
       THEN records' = records
       ELSE records' = [records EXCEPT ![processing_id] = ResetForRetry(@)]
    /\ UNCHANGED <<responses, next_id, tasks, cleanup, calls>>

retry_failed_processing(processing_id) ==
    /\ IF processing_id \notin DOMAIN records
       THEN records' = records
       ELSE IF records[processing_id].processing_status \notin {FAILED, RETRYING}
       THEN records' = records
       ELSE records' = [records EXCEPT ![processing_id] = ResetForRetry(@)]
    /\ UNCHANGED <<responses, next_id, tasks, cleanup, calls>>

\* ---------------------------------------------------------- scheduled cleanup
FailedRetentionDays == 30
CompletedRetentionDays == 90

\* time is observed when a row has just passed one of the two cutoffs
Older(age) ==
    IF age <= FailedRetentionDays THEN FailedRetentionDays + 1
    ELSE CompletedRetentionDays + 1

\* time passes: now() - created_at grows for every row
Tick ==
    /\ \E i \in DOMAIN records : records[i].created_at <= CompletedRetentionDays
    /\ records' = [i \in DOMAIN records |->
                      [records[i] EXCEPT !.created_at = Older(@)]]
    /\ UNCHANGED <<responses, next_id, tasks, cleanup, calls>>

\* lines 270-291: the two queries load the rows to delete and to scrub into
\* the session of the job; nothing is written before the commit
CleanupQuery ==
    /\ cleanup.pc = "idle"
    /\ cleanup' =
          [ pc |-> "queried",
            old_failed |->
                { i \in DOMAIN records :
                    /\ records[i].processing_status = FAILED
                    /\ records[i].created_at > FailedRetentionDays },
            old_completed |->
                { i \in DOMAIN records :
                    /\ records[i].processing_status = COMPLETED
                    /\ records[i].created_at > CompletedRetentionDays } ]
    /\ UNCHANGED <<responses, records, next_id, tasks, calls>>

\* lines 292-295: the three attributes the job assigns
Scrubbed(rec) ==
    [ rec EXCEPT !.original_content = None,
                 !.processed_content = NoText,
                 !.processing_steps = << >> ]

\* line 297: the commit flushes a DELETE for every loaded Failed row and an
\* UPDATE of the three assigned columns for every loaded Completed row, each
\* by primary key
CleanupCommit ==
    /\ cleanup.pc = "queried"
    /\ records' = [i \in DOMAIN records \ cleanup.old_failed |->
                      IF i \in cleanup.old_completed
                      THEN Scrubbed(records[i]) ELSE records[i]]
    /\ cleanup' = IdleSession
    /\ UNCHANGED <<responses, next_id, tasks, calls>>

\* ------------------------------------------------------------ specification
TaskStep(t) ==
    \/ CreateRecord(t)
    \/ StartProcessing(t)
    \/ \E outcome \in {"ok", "raises"} : Extract(t, outcome)
    \/ \E outcome \in {"ok", "raises"}, reply \in StdReplies :
          FinishStandardization(t, outcome, reply)
    \/ \E audit \in AuditOutcomes : AuditCompleted(t, audit)
    \/ \E audit \in AuditOutcomes : AuditError(t, audit)

Request ==
    \/ \E r \in DOMAIN responses, force \in BOOLEAN, file \in Uploads \cup {NoFile},
          audit \in AuditOutcomes : trigger_ai_processing(r, force, file, audit)
    \/ \E r \in DOMAIN responses, trigger \in BOOLEAN, audit \in AuditOutcomes :
          submit_response(r, trigger, audit)
    \/ \E processing_id \in 1..next_id : retry_failed_processing(processing_id)

Next ==
    \/ Request
    \/ \E t \in DOMAIN tasks : TaskStep(t)

Spec == Init /\ [][Next]_vars

\* the event loop runs every scheduled task to its end; requests are up to
\* the callers
FairSpec == Spec /\ \A t \in 1..MaxTasks : WF_vars(t \in DOMAIN tasks /\ TaskStep(t))

\* ------------------------------------------------- status of a response
ResponseStatus == {"DRAFT", "SUBMITTED", "REVIEWED", "ARCHIVED"}

_validate_status_transition(old_status, new_status) ==
    new_status \in
        CASE old_status = "DRAFT" -> {"SUBMITTED", "ARCHIVED"}
          [] old_status = "SUBMITTED" -> {"REVIEWED", "ARCHIVED"}
          [] old_status = "REVIEWED" -> {"ARCHIVED"}
          [] OTHER -> {}

\* payload.draft_content of an auto-save
DraftPayloads == {"with_content", "empty_content"}

\* POST /responses/autosave; version is incremented with auto_save_count
autosave_response(r, draft_content) ==
    /\ IF responses[r].status \in {"SUBMITTED", "REVIEWED"}
       THEN responses' = responses
       ELSE /\ responses[r].auto_save_count < MaxAutoSaves
            /\ responses' = [responses EXCEPT
                  ![r].draft_content = draft_content,
                  ![r].auto_save_count = @ + 1,
                  ![r].is_auto_saved = TRUE,
                  ![r].status = "DRAFT"]
    /\ UNCHANGED <<records, next_id, tasks, cleanup, calls>>

\* POST /responses/{response_id}/status
update_response_status(r, new_status) ==
    /\ IF _validate_status_transition(responses[r].status, new_status)
       THEN responses' = [responses EXCEPT ![r].status = new_status]
       ELSE responses' = responses
    /\ UNCHANGED <<records, next_id, tasks, cleanup, calls>>

\* the handlers that write the status of a response
ResponseNext ==
    \/ \E r \in DOMAIN responses, draft_content \in DraftPayloads :
          autosave_response(r, draft_content)
    \/ \E r \in DOMAIN responses, new_status \in ResponseStatus :
          update_response_status(r, new_status)
    \/ \E r \in DOMAIN responses, trigger \in BOOLEAN, audit \in AuditOutcomes :
          submit_response(r, trigger, audit)

ResponseSpec == Init /\ [][ResponseNext]_vars

\* ------------------------------------------------------- uploads of media
\* a scanned page, and a Word file sent with a generic declared type
MediaUploads ==
    { [content_type |-> <<"image", "png">>, filename |-> <<"scan", "PNG">>,
       data |-> "valid"],
      [content_type |-> <<"application", "octet-stream">>,
       filename |-> <<"letter", "DOCX">>, data |-> "valid"] }

MediaRequest ==
    \E r \in DOMAIN responses, force \in BOOLEAN, file \in MediaUploads,
       audit \in AuditOutcomes : trigger_ai_processing(r, force, file, audit)

MediaNext ==
    \/ MediaRequest
    \/ \E t \in DOMAIN tasks : TaskStep(t)

MediaSpec == Init /\ [][MediaNext]_vars

\* the steps a run is sure to take: the database statements, the decoding
\* and parsing done in place, and the end of chat.completions.create, which
\* the openai.AsyncOpenAI client of line 52 gives up by itself.  The answers
\* of pytesseract.image_to_string (line 189) and recognize_google (line 238)
\* are waited for with no timeout and are up to the tool called.
OwnStep(t) ==
    \/ CreateRecord(t)
    \/ StartProcessing(t)
    \/ /\ tasks[t].pc = "processing"
       /\ records[tasks[t].rec].input_type \in {"TEXT", "DOCUMENT"}
       /\ \E outcome \in {"ok", "raises"} : Extract(t, outcome)
    \/ \E outcome \in {"ok", "raises"}, reply \in StdReplies :
          FinishStandardization(t, outcome, reply)
    \/ \E audit \in AuditOutcomes : AuditCompleted(t, audit)
    \/ \E audit \in AuditOutcomes : AuditError(t, audit)

\* the event loop runs every task as far as the task can go by itself
MediaFairSpec ==
    MediaSpec /\ \A t \in 1..MaxTasks : WF_vars(t \in DOMAIN tasks /\ OwnStep(t))

\* ------------------------------------------------- the helpers on their own
\* token counts around the threshold of line 395
TokenCounts == {0, TokenThreshold, TokenThreshold + 1}

ScoreCalls ==
    { [ fn |-> "_calculate_confidence_score",
        original_len |-> o, standardized_len |-> s, tokens_used |-> k,
        result |-> NoScore ] :
        o \in 0..MaxLen, s \in 0..MaxLen, k \in TokenCounts }

\* file.content_type of an upload: None when the part carries no Content-Type
ContentTypes ==
    { Absent, <<"">>, <<"image", "png">>, <<"audio", "mpeg">>, <<"text", "plain">>,
      <<"application", "octet-stream">>, <<"video", "mp4">> } \cup DocumentMimeTypes

\* file.filename of an upload
Filenames ==
    { Absent, <<"">>, <<"README">>, <<"scan", "PNG">>, <<"photo", "final", "JPG">>,
      <<"talk", "mp3">>, <<"cv", "pdf">>, <<"letter", "DOCX">>, <<"notes", "txt">>,
      <<"archive", "zip">> }

ClassifyCalls ==
    { [ fn |-> "_determine_input_type",
        content_type |-> c, filename |-> f, result |-> None ] :
        c \in ContentTypes, f \in Filenames }

HelperInit(pending) ==
    /\ responses = << >>
    /\ records = << >>
    /\ next_id = 1
    /\ tasks = << >>
    /\ cleanup = IdleSession
    /\ calls \in pending

ApplyScore ==
    /\ calls.fn = "_calculate_confidence_score"
    /\ calls.result = NoScore
    /\ calls' = [calls EXCEPT !.result =
          _calculate_confidence_score(calls.original_len, calls.standardized_len,
                                      calls.tokens_used)]
    /\ UNCHANGED <<responses, records, next_id, tasks, cleanup>>

ApplyClassify ==
    /\ calls.fn = "_determine_input_type"
    /\ calls.result = None
    /\ calls' = [calls EXCEPT !.result =
          _determine_input_type(calls.content_type, calls.filename)]
    /\ UNCHANGED <<responses, records, next_id, tasks, cleanup>>

ScoreSpec == HelperInit(ScoreCalls) /\ [][ApplyScore]_vars

ClassifySpec == HelperInit(ClassifyCalls) /\ [][ApplyClassify]_vars

\* the application with its clock and its scheduler: the cron trigger of
\* scheduler.add_job fires the cleanup job whenever its time has come
CleanupNext ==
    \/ Next
    \/ Tick
    \/ CleanupQuery
    \/ CleanupCommit

CleanupSpec == Init /\ [][CleanupNext]_vars

\* ------------------------------------------------------------------ claims
NonTerminal == {PENDING, PROCESSING, RETRYING}

RecordsOf(r, statuses) ==
    { i \in DOMAIN records :
        records[i].response_id = r /\ records[i].processing_status \in statuses }

\* a processing request for response r without force_reprocess
ProcessingRequest(r) ==
    \/ \E file \in Uploads \cup {NoFile}, audit \in AuditOutcomes :
          trigger_ai_processing(r, FALSE, file, audit)
    \/ \E audit \in AuditOutcomes : submit_response(r, TRUE, audit)

\* C1: every response has at most one record that is Pending, Processing or
\* Retrying.
C1_AtMostOneActive ==
    \A r \in DOMAIN responses : Cardinality(RecordsOf(r, NonTerminal)) <= 1

\* C2: while a record of the response is Pending, Processing or Completed, a
\* processing request without force_reprocess creates no record, schedules no
\* run and leaves every record as it was.
C2_ExistingIsNoOp ==
    [][ \A r \in DOMAIN responses :
          RecordsOf(r, {PENDING, PROCESSING, COMPLETED}) # {} /\ ProcessingRequest(r)
            => records' = records /\ tasks' = tasks /\ next_id' = next_id ]_vars

\* a response was submitted, its run has completed, and a further request
\* without force_reprocess is accepted with room left to schedule a run
C2_Witness ==
    \E r \in DOMAIN responses :
        /\ RecordsOf(r, {COMPLETED}) # {}
        /\ responses[r].status = "SUBMITTED"
        /\ responses[r].content
        /\ Len(tasks) = 1
        /\ ENABLED trigger_ai_processing(r, FALSE, NoFile, "ok")
        /\ ENABLED submit_response(r, TRUE, "ok")

\* C3: while a record of the response is in any non-terminal status, Retrying
\* included, a processing request without force_reprocess changes nothing and
\* answers with the identifier and status of such a record.
C3_NonTerminalIsNoOp ==
    [][ \A r \in DOMAIN responses :
          RecordsOf(r, NonTerminal) # {} /\ ProcessingRequest(r)
            => /\ records' = records /\ tasks' = tasks
               /\ \A file \in Uploads \cup {NoFile} :
                    TriggerReplies(r, FALSE, file, "ok") \subseteq
                        { AlreadyExists(i) : i \in RecordsOf(r, NonTerminal) } ]_vars

\* C4: while the record of an attempt that trigger_ai_processing scheduled is
\* Pending, Processing or Completed, a second request without force_reprocess
\* is answered with the processing_id the first request was answered with,
\* and that is the identifier of the record.
C4_SameProcessingId ==
    \A t \in DOMAIN tasks :
        /\ tasks[t].replied = Initiated
        /\ tasks[t].rec \in DOMAIN records
        /\ records[tasks[t].rec].processing_status \in {PENDING, PROCESSING, COMPLETED}
        => \A second \in TriggerReplies(tasks[t].response_id, FALSE, NoFile, "ok") :
              /\ second.processing_id = tasks[t].replied.processing_id
              /\ second.processing_id = tasks[t].rec

\* C5: a request with force_reprocess while a Completed record exists is
\* answered with status Pending and the identifier of a record that did not
\* exist before and is Pending now.
C5_ForceCreatesPending ==
    [][ \A r \in DOMAIN responses, file \in Uploads \cup {NoFile} :
          /\ RecordsOf(r, {COMPLETED}) # {}
          /\ trigger_ai_processing(r, TRUE, file, "ok")
          /\ tasks' # tasks
          => LET reply == tasks'[Len(tasks')].replied IN
             /\ reply.status = "pending"
             /\ reply.processing_id \in DOMAIN records' \ DOMAIN records
             /\ records'[reply.processing_id].processing_status = PENDING ]_vars

\* C6: the record of an input whose extractor always fails eventually is
\* Failed with retry_count = max_retries.
C6_ExhaustsRetries ==
    \A t \in 1..MaxTasks :
        [](t \in DOMAIN tasks /\ tasks[t].data = "corrupt" /\ tasks[t].rec # 0
            => <>(/\ t \in DOMAIN tasks
                  /\ tasks[t].rec \in DOMAIN records
                  /\ records[tasks[t].rec].processing_status = FAILED
                  /\ records[tasks[t].rec].retry_count =
                         records[tasks[t].rec].max_retries))

\* C7: every record that is created eventually is Completed or Failed.
C7_EventuallyTerminal ==
    \A i \in 1..MaxTasks :
        [](i \in DOMAIN records
            => <>(/\ i \in DOMAIN records
                  /\ records[i].processing_status \in {COMPLETED, FAILED}))

AllowedTransitions ==
    { <<PENDING, PROCESSING>>, <<PROCESSING, COMPLETED>>, <<PROCESSING, RETRYING>>,
      <<PROCESSING, FAILED>>, <<RETRYING, PROCESSING>>,
      <<FAILED, PENDING>>, <<RETRYING, PENDING>> }

\* C8: a record changes status only along Pending->Processing,
\* Processing->Completed|Retrying|Failed, Retrying->Processing, or the manual
\* retry Failed->Pending / Retrying->Pending; Failed only by the manual retry.
C8_StatusTransitions ==
    [][ \A i \in DOMAIN records :
          i \in DOMAIN records'
          /\ records'[i].processing_status # records[i].processing_status
          => /\ <<records[i].processing_status, records'[i].processing_status>>
                    \in AllowedTransitions
             /\ records[i].processing_status = FAILED => retry_failed_processing(i) ]_vars

\* C9: the emission of an audit event, whether it succeeds or raises, leaves
\* the record as it is, and a run whose extraction and standardization have
\* succeeded ends returning 'completed' with the record Completed and
\* retry_count 0.
C9_AuditNeverFailsRun ==
    [][ \A t \in DOMAIN tasks :
          /\ tasks[t].pc \in {"audit_completed", "audit_error"}
               /\ tasks'[t].pc # tasks[t].pc
               => records'[tasks[t].rec] = records[tasks[t].rec]
          /\ tasks[t].pc = "audit_completed" /\ tasks'[t].pc = "done"
               => /\ tasks'[t].result = "completed"
                  /\ records'[tasks[t].rec].processing_status = COMPLETED
                  /\ records'[tasks[t].rec].retry_count = 0 ]_vars

\* C10: a failure of the extractor or the standardizer puts the record into
\* Retrying or Failed with error_message set, and the run then returns
\* 'retrying' or 'failed' instead of letting an exception out.
C10_ErrorsNeverEscape ==
    [][ \A t \in DOMAIN tasks :
          /\ tasks[t].pc \in {"processing", "standardizing"}
               /\ tasks'[t].pc = "audit_error"
               => /\ records'[tasks[t].rec].processing_status \in {RETRYING, FAILED}
                  /\ records'[tasks[t].rec].error_message # None
          /\ tasks[t].pc = "audit_error"
               /\ tasks[t].raised \in {"extractor", "standardizer"}
               /\ tasks'[t].pc = "done"
               => tasks'[t].result \in {"retrying", "failed"} ]_vars

Last(seq) == seq[Len(seq)]

\* C11: retry_failed_processing on a Failed or Retrying record leaves it with
\* retry_count 0, status Pending, error_message, started_at and completed_at
\* unset, and its steps are the steps before with one 'manual_retry_initiated'
\* entry appended.
C11_RetryResetsRecord ==
    [][ \A i \in DOMAIN records :
          records[i].processing_status \in {FAILED, RETRYING}
          /\ retry_failed_processing(i)
          => /\ records'[i].retry_count = 0
             /\ records'[i].processing_status = PENDING
             /\ records'[i].error_message = None
             /\ records'[i].started_at = None
             /\ records'[i].completed_at = None
             /\ records'[i].processing_steps =
                    Append(records[i].processing_steps, "manual_retry_initiated") ]_vars

\* a record that failed has been reset by the manual retry
C11_Witness ==
    \E i \in DOMAIN records :
        /\ records[i].processing_status = PENDING
        /\ Len(records[i].processing_steps) >= 2
        /\ Last(records[i].processing_steps) = "manual_retry_initiated"
        /\ records[i].processing_steps[Len(records[i].processing_steps) - 1]
               = "error_occurred"
        /\ records[i].retry_count = 0
        /\ records[i].started_at = None

\* C12: a record that the manual retry has put into Pending eventually is
\* Processing, because a run is started for it.
C12_RetryReentersPipeline ==
    \A i \in 1..MaxTasks :
        [](/\ i \in DOMAIN records
           /\ records[i].processing_status = PENDING
           /\ Len(records[i].processing_steps) > 0
           /\ Last(records[i].processing_steps) = "manual_retry_initiated"
           => <>(/\ i \in DOMAIN records
                 /\ records[i].processing_status = PROCESSING))

\* C13: retry_failed_processing on a record that is Pending, Processing or
\* Completed, or on an unknown processing_id, ends in an error and leaves
\* every record as it was.
C13_RetryRejected ==
    [][ \A processing_id \in 1..next_id :
          /\ retry_failed_processing(processing_id)
          /\ \/ processing_id \notin DOMAIN records
             \/ records[processing_id].processing_status
                    \in {PENDING, PROCESSING, COMPLETED}
          => /\ records' = records
             /\ RetryOutcome(processing_id) \in
                    { "Processing record not found",
                      "Can only retry failed or retrying processing jobs" } ]_vars

\* a Completed, a Processing or Pending record and an unused identifier are
\* there for the manual retry to be called on
C13_Witness ==
    \E i, j \in DOMAIN records :
        /\ records[i].processing_status = COMPLETED
        /\ records[j].processing_status \in {PENDING, PROCESSING}
        /\ RetryOutcome(i) = "Can only retry failed or retrying processing jobs"
        /\ RetryOutcome(j) = "Can only retry failed or retrying processing jobs"
        /\ RetryOutcome(next_id) = "Processing record not found"
        /\ ENABLED retry_failed_processing(i)
        /\ ENABLED retry_failed_processing(next_id)

IsPrefix(s, t) == Len(s) <= Len(t) /\ SubSeq(t, 1, Len(s)) = s

\* C14: in every step of the system, the cleanup job included, the
\* processing_steps of a record that exists before and after the step has its
\* value before the step as a prefix.
C14_StepsAppendOnly ==
    [][ \A i \in DOMAIN records :
          i \in DOMAIN records'
          => IsPrefix(records[i].processing_steps,
                      records'[i].processing_steps) ]_vars

C16_ConfidenceInUnitInterval ==
    calls.fn = "_calculate_confidence_score" /\ calls.result # NoScore
    => 0 <= calls.result /\ calls.result <= 10

\* the score of a call that earns both deductions
C16_Witness ==
    /\ calls.fn = "_calculate_confidence_score"
    /\ calls.tokens_used > TokenThreshold
    /\ calls.standardized_len > 2 * Max(calls.original_len, 1)
    /\ calls.result # NoScore
    /\ calls.result < BaseConfidence

\* C17: for every declared media type and filename, absent ones included,
\* _determine_input_type returns Text, Image, Audio or Document and does not
\* raise.
C17_ClassifierTotal ==
    calls.fn = "_determine_input_type" /\ calls.result # None
    => calls.result \in AIInputType

\* the group a declared media type belongs to, None when it belongs to none
DeclaredGroup(content_type) ==
    IF content_type = Absent \/ Len(content_type) < 2 THEN None
    ELSE IF content_type[1] = "image" THEN "IMAGE"
    ELSE IF content_type[1] = "audio" THEN "AUDIO"
    ELSE IF content_type \in DocumentMimeTypes THEN "DOCUMENT"
    ELSE IF content_type[1] = "text" THEN "TEXT"
    ELSE None

\* the group the extension of a filename belongs to, None when there is none
ExtensionGroup(filename) ==
    IF filename = Absent \/ filename = <<"">> THEN None
    ELSE LET ext == Lower(Last(filename)) IN
         IF ext \in {"jpg", "jpeg", "png", "gif", "bmp", "tiff"} THEN "IMAGE"
         ELSE IF ext \in {"mp3", "wav", "ogg", "flac", "m4a"} THEN "AUDIO"
         ELSE IF ext \in {"pdf", "docx", "doc"} THEN "DOCUMENT"
         ELSE IF ext \in {"txt", "md", "rtf"} THEN "TEXT"
         ELSE None

\* C18: the result is the group of the declared media type whenever it has
\* one, whatever the filename; otherwise the group of the filename extension;
\* and Text when neither has a group.
C18_ClassifierPrecedence ==
    calls.fn = "_determine_input_type" /\ calls.result # None
    => calls.result =
          IF DeclaredGroup(calls.content_type) # None
          THEN DeclaredGroup(calls.content_type)
          ELSE IF ExtensionGroup(calls.filename) # None
          THEN ExtensionGroup(calls.filename)
          ELSE "TEXT"

\* the run of task t is waiting for the answer of the OCR, the speech
\* recognition or the text-generation call
RemoteCallInFlight(t) ==
    /\ t \in DOMAIN tasks
    /\ \/ tasks[t].pc = "standardizing"
       \/ /\ tasks[t].pc = "processing"
          /\ records[tasks[t].rec].input_type \in {"IMAGE", "AUDIO"}

\* C19: a run does not wait for a remote call forever: when no answer comes
\* it gives the call up as failed, and the record leaves Processing for
\* Retrying or Failed.
C19_RemoteCallTimesOut ==
    \A t \in 1..MaxTasks :
        [](RemoteCallInFlight(t)
            => <>(\/ ~RemoteCallInFlight(t)
                  \/ records[tasks[t].rec].processing_status \in {RETRYING, FAILED}))

\* C20: a record classified Document whose declared content type is neither
\* PDF nor Word never is Completed; its run takes the error path.
C20_UnsupportedDocumentFails ==
    \A t \in DOMAIN tasks :
        /\ tasks[t].rec \in DOMAIN records
        /\ records[tasks[t].rec].input_type = "DOCUMENT"
        /\ tasks[t].content_type \notin DocumentMimeTypes
        => /\ records[tasks[t].rec].processing_status # COMPLETED
           /\ records[tasks[t].rec].standardized_text = NoText

\* C21: a Pending record has started_at unset, and a Processing, Completed,
\* Retrying or Failed record has started_at set.
C21_StartedAtFromProcessing ==
    \A i \in DOMAIN records :
        /\ records[i].processing_status = PENDING => records[i].started_at = None
        /\ records[i].processing_status # PENDING => records[i].started_at # None

\* C22: completed_at of a record is set if and only if the record is
\* Completed or Failed.
C22_CompletedAtIffTerminal ==
    \A i \in DOMAIN records :
        records[i].completed_at # None
            <=> records[i].processing_status \in {COMPLETED, FAILED}

\* the run of task t enters the error handler for record i in this step
EntersErrorHandler(t, i) ==
    /\ tasks[t].rec = i
    /\ tasks[t].pc # "audit_error"
    /\ tasks'[t].pc = "audit_error"

\* C23: always 0 <= retry_count <= max_retries, a Retrying record has
\* 1 <= retry_count < max_retries, a Failed record has retry_count >=
\* max_retries, and retry_count changes only by +1 in the error handler or to
\* 0 in the manual retry.
C23_RetryCountDiscipline ==
    /\ [](\A i \in DOMAIN records :
            /\ 0 <= records[i].retry_count
            /\ records[i].retry_count <= records[i].max_retries
            /\ records[i].processing_status = RETRYING
                  => /\ 1 <= records[i].retry_count
                     /\ records[i].retry_count < records[i].max_retries
            /\ records[i].processing_status = FAILED
                  => records[i].retry_count >= records[i].max_retries)
    /\ [][ \A i \in DOMAIN records :
            i \in DOMAIN records' /\ records'[i].retry_count # records[i].retry_count
            => \/ /\ records'[i].retry_count = records[i].retry_count + 1
                  /\ \E t \in DOMAIN tasks : EntersErrorHandler(t, i)
               \/ /\ records'[i].retry_count = 0
                  /\ retry_failed_processing(i) ]_vars

\* one record has been counted by the error handler and another one has been
\* counted and reset by the manual retry
C23_Witness ==
    \E i, j \in DOMAIN records :
        /\ records[i].processing_status = RETRYING
        /\ records[i].retry_count = 1
        /\ records[j].processing_status = PENDING
        /\ records[j].retry_count = 0
        /\ Len(records[j].processing_steps) > 0
        /\ Last(records[j].processing_steps) = "manual_retry_initiated"

\* C24: a record has standardized_text and confidence_score set if and only
\* if it is Completed.
C24_ResultsIffCompleted ==
    \A i \in DOMAIN records :
        /\ records[i].processing_status = COMPLETED
              => /\ records[i].standardized_text # NoText
                 /\ records[i].confidence_score # NoScore
        /\ records[i].processing_status # COMPLETED
              => /\ records[i].standardized_text = NoText
                 /\ records[i].confidence_score = NoScore

ExtractorStartEntries ==
    {"ocr_processing_started", "speech_to_text_started", "document_parsing_started"}

ExtractorSuccessEntries ==
    {"ocr_completed", "speech_to_text_completed", "document_parsing_completed"}

ExtractorErrorEntries ==
    {"ocr_error", "speech_to_text_error", "document_parsing_error"}

\* C25: in the step history of every record an extractor success or error
\* entry directly follows an extractor start entry, and the standardization
\* start entry directly follows an extractor success entry, for every
\* modality.
C25_ExtractorEntries ==
    \A i \in DOMAIN records :
        \A k \in 1..Len(records[i].processing_steps) :
            LET steps == records[i].processing_steps IN
            /\ steps[k] \in ExtractorSuccessEntries \cup ExtractorErrorEntries
                  => k > 1 /\ steps[k - 1] \in ExtractorStartEntries
            /\ steps[k] = "openai_standardization_started"
                  => k > 1 /\ steps[k - 1] \in ExtractorSuccessEntries

\* C26: a run that has written a status ends having emitted one outcome
\* event, the one named after the status it leaves on its record: its last
\* audit call went through and the run returns that status.
C26_OneOutcomeEvent ==
    [][ \A t \in DOMAIN tasks :
          tasks[t].pc \in {"audit_completed", "audit_error"} /\ tasks'[t].pc = "done"
          => /\ tasks'[t].result \in {"completed", "retrying", "failed"}
             /\ tasks'[t].result =
                    StatusLower(records'[tasks[t].rec].processing_status) ]_vars

\* C27: the score is 8 tenths, less 2 exactly when the length ratio is
\* strictly below 0.5 or strictly above 2.0, less 1 exactly when the token
\* count is strictly above 1500; so it is one of 8, 7, 6 and 5 tenths.
C27_ConfidenceFormula ==
    calls.fn = "_calculate_confidence_score" /\ calls.result # NoScore
    => LET denom == IF calls.original_len > 1 THEN calls.original_len ELSE 1
           off_ratio == \/ 2 * calls.standardized_len < denom
                        \/ calls.standardized_len > 2 * denom
           costly == calls.tokens_used > 1500
       IN  /\ calls.result = 8 - (IF off_ratio THEN 2 ELSE 0)
                               - (IF costly THEN 1 ELSE 0)
           /\ calls.result \in {8, 7, 6, 5}

\* the score of a call on the boundaries: ratio exactly 2.0, 1500 tokens
C27_Witness ==
    /\ calls.fn = "_calculate_confidence_score"
    /\ calls.original_len = 1
    /\ calls.standardized_len = 2
    /\ calls.tokens_used = 1500
    /\ calls.result = 8

\* C28: a manual retry that ends in an error, 'Original response data not
\* found' included, leaves every record as it was before the call.
C28_FailedRetryChangesNothing ==
    [][ \A processing_id \in 1..next_id :
          /\ retry_failed_processing(processing_id)
          /\ RetryOutcome(processing_id) # "retry_initiated"
          => records' = records ]_vars

\* C29: a step of a run (the task moves on) changes no record but the one
\* the run created, and the input_type of a record never changes.
C29_RunWritesOwnRecord ==
    [][ /\ \A t \in DOMAIN tasks :
             tasks'[t].pc # tasks[t].pc
             => \A i \in DOMAIN records :
                   i # tasks'[t].rec
                   => i \in DOMAIN records' /\ records'[i] = records[i]
        /\ \A i \in DOMAIN records :
             i \in DOMAIN records'
             => records'[i].input_type = records[i].input_type ]_vars

\* a second run for the same response is under way next to a record that an
\* earlier run has completed
C29_Witness ==
    \E t \in DOMAIN tasks, i \in DOMAIN records :
        /\ tasks[t].rec \in DOMAIN records
        /\ tasks[t].rec # i
        /\ tasks[t].pc = "processing"
        /\ records[tasks[t].rec].processing_status = PROCESSING
        /\ records[i].response_id = tasks[t].response_id
        /\ records[i].processing_status = COMPLETED

\* C30: every change of the status of a response made by autosave_response,
\* update_response_status or submit_response is a transition that
\* _validate_status_transition allows; an ARCHIVED response keeps its status.
C30_ResponseTransitionsValid ==
    [][ \A r \in DOMAIN responses :
          responses'[r].status # responses[r].status
          => _validate_status_transition(responses[r].status,
                                         responses'[r].status) ]_vars

====
